---- MODULE Spec2Model ----
(***************************************************************************)
(* Model of the Gmail spam triage daemon: gmail_spam_checker.poll_gmail    *)
(* with ensure_processed_label and modify_message_labels, and              *)
(* spam_classifier.SpamClassifier.  Strings the program inspects (the From *)
(* header, the trusted domains) are sequences of one-character strings so  *)
(* that lower() and the `in` substring test are computed; strings it only  *)
(* passes on (subject, snippet, label ids) are TLA+ strings.  Probabilities*)
(* are hundredths (0.95 is 95).                                            *)
(***************************************************************************)
EXTENDS Integers, Sequences, FiniteSets, TLC

\* ------------------------------------------------------------------ bounds
MaxMsgs == 3
MaxLabels == 3
MaxLiveMsgs == 2
MaxStarveMsgs == 3

\* --------------------------------------------------------------- constants
PROCESSED_LABEL_NAME == "ML_PROCESSED"
SPAM_CONFIDENCE_THRESHOLD == 95
TRUSTED_DOMAINS ==
  << <<"@","g","o","o","g","l","e",".","c","o","m">>,
     <<"@","g","m","a","i","l",".","c","o","m">>,
     <<"@","g","i","t","h","u","b",".","c","o","m">>,
     <<"@","m","i","c","r","o","s","o","f","t",".","c","o","m">>,
     <<"@","a","m","a","z","o","n",".","c","o","m">> >>

NoSubject == "[No Subject]"
NoSender_Own == <<"m","e","@","g","m","a","i","l",".","c","o","m">>

NoSender == <<"[","N","o"," ","S","e","n","d","e","r","]">>

\* ------------------------------------------------------- string operations
UpperAlpha == <<"A","B","C","D","E","F","G","H","I","J","K","L","M",
                "N","O","P","Q","R","S","T","U","V","W","X","Y","Z">>
LowerAlpha == <<"a","b","c","d","e","f","g","h","i","j","k","l","m",
                "n","o","p","q","r","s","t","u","v","w","x","y","z">>

LowerChar(c) ==
  IF \E k \in 1..Len(UpperAlpha) : UpperAlpha[k] = c
  THEN LowerAlpha[CHOOSE k \in 1..Len(UpperAlpha) : UpperAlpha[k] = c]
  ELSE c

\* str.lower()
Lower(s) == [k \in 1..Len(s) |-> LowerChar(s[k])]

\* the Python test `d in s` on strings
Contains(s, d) ==
  \E k \in 0..(Len(s) - Len(d)) : SubSeq(s, k + 1, k + Len(d)) = d

\* dict built from the header list, then .get(name, default): the last
\* header of that exact name wins, the default stands in when there is none
HeaderGet(headers, name, default) ==
  LET hits == {k \in 1..Len(headers) : headers[k].name = name}
  IN IF hits = {} THEN default
     ELSE headers[CHOOSE k \in hits : \A j \in hits : j <= k].value

\* ------------------------------------------------ the provider's mailbox
MsgIds == 1..MaxMsgs

\* What messages.get(format='metadata') returns for each message id: the
\* payload headers and the snippet.  Four kinds of mail, assigned to the
\* ids in turn: an unknown sender; a sender in mixed case whose address
\* holds a trusted string that is not its domain suffix; a message with
\* neither From nor Subject; a sender in mixed case at a trusted domain.
Emails ==
  << [headers |-> << [name |-> "Subject", value |-> "You won"],
                     [name |-> "From",
                      value |-> <<"r","@","u","n","k",".","b","i","z">>] >>,
      snippet |-> "claim your prize"],
     [headers |-> << [name |-> "Subject", value |-> "Support"],
                     [name |-> "From",
                      value |-> <<"x","@","G","o","o","g","l","e",".","c",
                                  "o","m",".","e","v","i","l",".","n","e",
                                  "t">>] >>,
      snippet |-> "verify your account"],
     [headers |-> << [name |-> "Date", value |-> "Mon, 2 Nov" ] >>,
      snippet |-> "hello"],
     [headers |-> << [name |-> "From",
                      value |-> <<"A","l","@","G","i","t","H","u","b",
                                  ".","C","o","m">>],
                     [name |-> "Subject", value |-> "Security alert"] >>,
      snippet |-> "free free free"] >>

EmailOf(m) ==
  LET e == Emails[((m - 1) % Len(Emails)) + 1]
  IN [id |-> m, payload |-> [headers |-> e.headers], snippet |-> e.snippet]

NoEmail == [id |-> 0, payload |-> [headers |-> <<>>], snippet |-> ""]

None == "None"
NoProbability == 0 - 1

\* outcomes of one call to the provider: it answers, it raises
\* googleapiclient.errors.HttpError, or it raises something else
\* (transport failure, malformed answer)
ApiOutcomes == {"ok", "HttpError", "Exception"}

\* probabilities the model can return, in hundredths
Probs == {0, 40, 94, 95, 96, 100}

LabelIds == <<"Label_1", "Label_2", "Label_3", "Label_4", "Label_5",
              "Label_6", "Label_7", "Label_8">>

\* the account's user labels before the first run
InitAccounts ==
  { <<>>,
    << [id |-> "Label_1", name |-> "Work"],
       [id |-> "Label_2", name |-> PROCESSED_LABEL_NAME] >>,
    << [id |-> "Label_1", name |-> "ml_processed"] >> }

RECURSIVE Perms(_)
Perms(S) ==
  IF S = {} THEN {<<>>}
  ELSE UNION {{<<x>> \o p : p \in Perms(S \ {x})} : x \in S}

Range(s) == {s[k] : k \in 1..Len(s)}

VARIABLES
  pc,                  \* where poll_gmail stands
  exitReason,          \* why the run ended, "" while it runs
  account,             \* provider: the account's label list
  present,             \* provider: ids of the messages in the mailbox
  msgLabels,           \* provider: label ids on each message
  processed_label_id,  \* poll_gmail local
  messages,            \* poll_gmail local: the batch of the current cycle
  i,                   \* position of the for loop in messages
  email,               \* poll_gmail local: the metadata last fetched
  spam_probability,    \* poll_gmail local
  call,                \* the last call made to a collaborator
  modified             \* ids passed to modify since the last list call

vars == <<pc, exitReason, account, present, msgLabels, processed_label_id,
          messages, i, email, spam_probability, call, modified>>

provider == <<account, present, msgLabels>>
locals == <<processed_label_id, messages, i, email, spam_probability>>

NoCall == [op |-> "none", id |-> 0, add |-> {}, remove |-> {},
           outcome |-> "ok", log |-> ""]

Call(op, id, outcome, log) ==
  [op |-> op, id |-> id, add |-> {}, remove |-> {}, outcome |-> outcome,
   log |-> log]

LoopPcs == {"list", "fetch", "triage", "threshold", "sleep"}

\* --------------------------------------------------------- label registry
FindLabel_Never(acct) == None

\* the for loop of ensure_processed_label: the id of the first label whose
\* name equals the reserved name, None when the loop falls through
FindLabel(acct) ==
  LET hits == {k \in 1..Len(acct) : acct[k].name = PROCESSED_LABEL_NAME}
  IN IF hits = {} THEN None
     ELSE acct[CHOOSE k \in hits : \A j \in hits : k <= j].id

\* the id the provider gives to the next label it creates
FreshLabelId(acct) == LabelIds[Len(acct) + 1]

\* ensure_processed_label(service): ret is the value returned (None after a
\* caught HttpError), raised tells that another exception left the function,
\* account is the provider's label list afterwards, op/outcome the last call
ensure_processed_label(acct, listOut, createOut) ==
  IF listOut # "ok"
  THEN [ret |-> None, raised |-> (listOut = "Exception"), account |-> acct,
        op |-> "labels.list", outcome |-> listOut]
  ELSE IF FindLabel(acct) # None
  THEN [ret |-> FindLabel(acct), raised |-> FALSE, account |-> acct,
        op |-> "labels.list", outcome |-> "ok"]
  ELSE IF createOut # "ok"
  THEN [ret |-> None, raised |-> (createOut = "Exception"), account |-> acct,
        op |-> "labels.create", outcome |-> createOut]
  ELSE [ret |-> FreshLabelId(acct), raised |-> FALSE,
        account |-> Append(acct, [id |-> FreshLabelId(acct),
                                   name |-> PROCESSED_LABEL_NAME]),
        op |-> "labels.create", outcome |-> "ok"]

LabelMissing_Never(id) == FALSE

\* `if not processed_label_id`
LabelMissing(id) == id = None

\* ------------------------------------------------------------- classifier
FailureResult_Ones(texts) == [k \in 1..Len(texts) |-> 100]

\* the except branch: [0.0] * len(texts)
FailureResult(texts) == [k \in 1..Len(texts) |-> 0]

\* SpamClassifier.get_spam_probabilities_batch: inference.raised tells that
\* tokenizer or model raised inside the try, inference.probs is
\* predictions[:, 1].tolist() otherwise
get_spam_probabilities_batch(texts, inference) ==
  IF inference.raised THEN FailureResult(texts) ELSE inference.probs

\* SpamClassifier.get_spam_probability
get_spam_probability(text, inference) ==
  get_spam_probabilities_batch(<<text>>, inference)[1]

\* ---------------------------------------------------------- triage engine
Subject(e) == HeaderGet(e.payload.headers, "Subject", NoSubject)
Sender(e) == HeaderGet(e.payload.headers, "From", NoSender)

IsTrusted_Suffix(sender) ==
  \E k \in 1..Len(TRUSTED_DOMAINS) :
     /\ Len(sender) >= Len(TRUSTED_DOMAINS[k])
     /\ SubSeq(Lower(sender), Len(sender) - Len(TRUSTED_DOMAINS[k]) + 1,
               Len(sender)) = TRUSTED_DOMAINS[k]

IsTrusted_NoLower(sender) ==
  \E k \in 1..Len(TRUSTED_DOMAINS) : Contains(sender, TRUSTED_DOMAINS[k])

\* any(domain in sender.lower() for domain in TRUSTED_DOMAINS)
IsTrusted(sender) ==
  \E k \in 1..Len(TRUSTED_DOMAINS) :
     Contains(Lower(sender), TRUSTED_DOMAINS[k])

\* f"Subject: {subject} From: {sender} Body: {snippet}"
TextToClassify(subject, sender, snippet) ==
  <<"Subject: ", subject, " From: ", sender, " Body: ", snippet>>

IsSpam_Sticky(p) ==
  \/ p > SPAM_CONFIDENCE_THRESHOLD
  \/ \E k \in 1..Len(modified) : "SPAM" \in msgLabels[modified[k]]

IsSpam_Ge(p) == p >= SPAM_CONFIDENCE_THRESHOLD

\* spam_probability > SPAM_CONFIDENCE_THRESHOLD
IsSpam(p) == p > SPAM_CONFIDENCE_THRESHOLD

\* the label lists handed to modify_message_labels on the three branches
TrustedMutation(lbl) == [add |-> {lbl}, remove |-> {}]

SpamMutation_Marked(lbl) == [add |-> {"SPAM", lbl}, remove |-> {"INBOX"}]

SpamMutation(lbl) == [add |-> {"SPAM"}, remove |-> {"INBOX"}]

HamMutation_ByName(lbl) == [add |-> {PROCESSED_LABEL_NAME}, remove |-> {}]

HamMutation(lbl) == [add |-> {lbl}, remove |-> {}]

\* ---------------------------------------------------------------- provider
\* ids of the labels of the account that carry the given name
LabelsNamed(acct, name) == {acct[k].id : k \in {j \in 1..Len(acct) : acct[j].name = name}}

ListCandidates_WithSpam(acct, pres, lbls) ==
  {m \in pres : /\ "UNREAD" \in lbls[m]
                /\ lbls[m] \cap LabelsNamed(acct, PROCESSED_LABEL_NAME) = {}}

ListCandidates_All(acct, pres, lbls) ==
  {m \in pres : "UNREAD" \in lbls[m] /\ "SPAM" \notin lbls[m]}

\* messages.list(userId='me', q='is:unread -label:ML_PROCESSED'): unread
\* messages without the label of that name; the call does not set
\* includeSpamTrash, so messages in SPAM are left out of the answer
ListCandidates(acct, pres, lbls) ==
  {m \in pres : /\ "UNREAD" \in lbls[m]
                /\ lbls[m] \cap LabelsNamed(acct, PROCESSED_LABEL_NAME) = {}
                /\ "SPAM" \notin lbls[m]}

\* messages.modify with addLabelIds / removeLabelIds
ApplyModify(lbls, add, remove) == (lbls \ remove) \cup add

\* ------------------------------------------------------------------- Init
Init ==
  /\ pc = "start"
  /\ exitReason = ""
  /\ account \in InitAccounts
  /\ present = {}
  /\ msgLabels = [m \in MsgIds |-> {}]
  /\ processed_label_id = None
  /\ messages = <<>>
  /\ i = 0
  /\ email = NoEmail
  /\ spam_probability = NoProbability
  /\ call = NoCall
  /\ modified = <<>>

\* ---------------------------------------------------------------- actions
\* poll_gmail up to the while loop: credentials, service, processed label
Startup ==
  /\ pc = "start"
  /\ \E creds \in {"ok", "none"}, listOut \in ApiOutcomes,
        createOut \in ApiOutcomes :
       IF creds = "none"
       THEN /\ pc' = "exited"
            /\ exitReason' = "no_credentials"
            /\ UNCHANGED <<account, processed_label_id, call>>
       ELSE LET r == ensure_processed_label(account, listOut, createOut)
            IN /\ Len(r.account) <= MaxLabels
               /\ account' = r.account
               /\ call' = Call(r.op, 0, r.outcome, "")
               /\ IF r.raised
                  THEN /\ pc' = "crashed"
                       /\ exitReason' = "uncaught"
                       /\ UNCHANGED processed_label_id
                  ELSE /\ processed_label_id' = r.ret
                       /\ IF LabelMissing(r.ret)
                          THEN pc' = "exited" /\ exitReason' = "no_label"
                          ELSE pc' = "list" /\ exitReason' = ""
  /\ UNCHANGED <<present, msgLabels, messages, i, email, spam_probability,
                 modified>>

OnCycleError_Crash == "crashed"

OnCycleError_NoSleep == "list"

OnCycleError_Exit == "exited"

\* the two except clauses of the while body: log, then fall through to
\* time.sleep
OnCycleError == "sleep"

\* query, messages.list, response.get('messages', [])
ListMessages ==
  /\ pc = "list"
  /\ \E out \in ApiOutcomes :
       IF out = "ok"
       THEN \E order \in Perms(ListCandidates(account, present, msgLabels)) :
              /\ messages' = order
              /\ IF order = <<>>
                 THEN /\ pc' = "sleep"
                      /\ i' = 0
                      /\ call' = Call("messages.list", 0, out, "No new")
                 ELSE /\ pc' = "fetch"
                      /\ i' = 1
                      /\ call' = Call("messages.list", 0, out, "Found")
       ELSE /\ pc' = OnCycleError
            /\ call' = Call("messages.list", 0, out, "error")
            /\ UNCHANGED <<messages, i>>
  /\ modified' = <<>>
  /\ UNCHANGED <<exitReason, provider, processed_label_id, email,
                 spam_probability>>

\* messages.get(id=msg['id'], format='metadata') for the next message
FetchMetadata ==
  /\ pc = "fetch"
  /\ \E out \in ApiOutcomes :
       /\ call' = Call("messages.get", messages[i], out,
                       IF out = "ok" THEN "" ELSE "error")
       /\ IF out = "ok"
          THEN email' = EmailOf(messages[i]) /\ pc' = "triage"
          ELSE email' = email /\ pc' = OnCycleError
  /\ UNCHANGED <<exitReason, provider, processed_label_id, messages, i,
                 spam_probability, modified>>

ModifyRaises_Any(out) == out # "ok"

\* modify_message_labels catches HttpError only: any other exception of
\* the call leaves the function
ModifyRaises(out) == out = "Exception"

\* modify_message_labels(service, id, add, remove) followed by the next
\* turn of the for loop: an HttpError is logged inside the function, any
\* other exception leaves it and reaches the except clauses of the cycle
Modify(id, mut, out, log) ==
  /\ msgLabels' = IF out = "ok"
                  THEN [msgLabels EXCEPT
                          ![id] = ApplyModify(@, mut.add, mut.remove)]
                  ELSE msgLabels
  /\ call' = [op |-> "messages.modify", id |-> id, add |-> mut.add,
              remove |-> mut.remove, outcome |-> out, log |-> log]
  /\ modified' = Append(modified, id)
  /\ IF ModifyRaises(out)
     THEN pc' = OnCycleError /\ i' = i
     ELSE /\ i' = i + 1
          /\ pc' = IF i + 1 > Len(messages) THEN "sleep" ELSE "fetch"

\* the trusted branch: log TRUSTED, add the processed label, continue
TriageTrusted ==
  /\ pc = "triage"
  /\ IsTrusted(Sender(email))
  /\ \E out \in ApiOutcomes :
       Modify(email.id, TrustedMutation(processed_label_id), out, "TRUSTED")
  /\ UNCHANGED <<exitReason, account, present, processed_label_id, messages,
                 email, spam_probability>>

Inferences ==
  {[raised |-> TRUE, probs |-> <<>>]} \cup
  {[raised |-> FALSE, probs |-> <<p>>] : p \in Probs}

\* text_to_classify and classifier.get_spam_probability
Classify ==
  /\ pc = "triage"
  /\ ~IsTrusted(Sender(email))
  /\ \E inference \in Inferences :
       /\ spam_probability' =
            get_spam_probability(
              TextToClassify(Subject(email), Sender(email), email.snippet),
              inference)
       /\ call' = Call("classify", email.id,
                       IF inference.raised THEN "error" ELSE "ok", "")
  /\ pc' = "threshold"
  /\ UNCHANGED <<exitReason, provider, processed_label_id, messages, i,
                 email, modified>>

\* the threshold test and the SPAM / NOT SPAM branches
ApplyThreshold ==
  /\ pc = "threshold"
  /\ \E out \in ApiOutcomes :
       IF IsSpam(spam_probability)
       THEN Modify(email.id, SpamMutation(processed_label_id), out, "SPAM")
       ELSE Modify(email.id, HamMutation(processed_label_id), out,
                   "NOT SPAM")
  /\ UNCHANGED <<exitReason, account, present, processed_label_id, messages,
                 email, spam_probability>>

\* time.sleep(POLL_INTERVAL_SECONDS), then the next turn of the while loop.
\* messages, email and spam_probability of the finished cycle are dead
\* here: the next cycle binds each of them again before it reads it, so
\* the model forgets them
Sleep ==
  /\ pc = "sleep"
  /\ pc' = "list"
  /\ call' = Call("sleep", 0, "ok", "")
  /\ messages' = <<>>
  /\ i' = 0
  /\ email' = NoEmail
  /\ spam_probability' = NoProbability
  /\ modified' = <<>>
  /\ UNCHANGED <<exitReason, provider, processed_label_id>>

\* ------------------------------------------------------------ environment
\* a new unread message is delivered to the inbox
Deliver(m) ==
  /\ m \notin present
  /\ present' = present \cup {m}
  /\ msgLabels' = [msgLabels EXCEPT ![m] = {"INBOX", "UNREAD"}]
  /\ UNCHANGED <<pc, exitReason, account, locals, call, modified>>

Arrive == \E m \in MsgIds : Deliver(m)

\* the process is ended from outside (signal)
Kill ==
  /\ pc \in LoopPcs
  /\ pc' = "exited"
  /\ exitReason' = "killed"
  /\ UNCHANGED <<provider, locals, call, modified>>

\* the program is started again after a run has ended
Restart ==
  /\ pc \in {"exited", "crashed"}
  /\ pc' = "start"
  /\ exitReason' = ""
  /\ processed_label_id' = None
  /\ messages' = <<>>
  /\ i' = 0
  /\ email' = NoEmail
  /\ spam_probability' = NoProbability
  /\ call' = NoCall
  /\ modified' = <<>>
  /\ UNCHANGED provider

Run ==
  \/ Startup
  \/ ListMessages
  \/ FetchMetadata
  \/ TriageTrusted
  \/ Classify
  \/ ApplyThreshold
  \/ Sleep

Next ==
  \/ Run
  \/ Arrive
  \/ Kill
  \/ Restart

Spec == Init /\ [][Next]_vars

\* One uninterrupted run on a fresh account, with at most MaxLiveMsgs
\* messages delivered.  The program is a single thread whose calls return
\* or raise and whose sleep ends, so a step of the run that stays enabled
\* is taken.
LiveInit == Init /\ account = <<>>

ArriveLive == \E m \in 1..MaxLiveMsgs : Deliver(m)

NextLive ==
  \/ Run
  \/ ArriveLive

LiveSpec == LiveInit /\ [][NextLive]_vars /\ WF_vars(Run)

\* A run in which the provider's failures are transient: a list call, the
\* fetch of a message and the modify of a message that are attempted again
\* and again do not fail every time.
ListOk == ListMessages /\ call'.outcome = "ok"

FetchOk == FetchMetadata /\ call'.outcome = "ok"

ModifyOk ==
  /\ TriageTrusted \/ ApplyThreshold
  /\ call'.outcome = "ok"

RetrySpec ==
  /\ LiveInit
  /\ [][NextLive]_vars
  /\ WF_vars(Run)
  /\ SF_vars(ListOk)
  /\ SF_vars(FetchOk)
  /\ SF_vars(ModifyOk)

\* A run in which the metadata fetch of one message fails at every attempt
\* while every other call to the provider and to the classifier succeeds.
Poisoned == {1}

Reliable ==
  /\ pc \notin {"exited", "crashed"}
  /\ IF call.op = "messages.get" /\ call.id \in Poisoned
     THEN call.outcome # "ok"
     ELSE call.outcome = "ok"

StarveRun == Run /\ Reliable'

ArriveStarve == \E m \in 1..MaxStarveMsgs : Deliver(m)

StarveNext ==
  \/ StarveRun
  \/ ArriveStarve

StarveSpec == LiveInit /\ [][StarveNext]_vars /\ WF_vars(StarveRun)

TypeOK ==
  /\ pc \in LoopPcs \cup {"start", "exited", "crashed"}
  /\ present \subseteq MsgIds
  /\ i \in 0..(MaxMsgs + 1)
  /\ Range(messages) \subseteq present
  /\ spam_probability \in Probs \cup {NoProbability}

\* ------------------------------------------------------------- properties
\* messages of the current batch that the for loop has not finished
Pending ==
  IF pc \in {"fetch", "triage", "threshold"}
  THEN {messages[k] : k \in i..Len(messages)}
  ELSE {}

ProcessedIds == LabelsNamed(account, PROCESSED_LABEL_NAME)
HasProcessed(m) == msgLabels[m] \cap ProcessedIds # {}
InSpamUnread(m) ==
  /\ "SPAM" \in msgLabels[m]
  /\ "INBOX" \notin msgLabels[m]
  /\ "UNREAD" \in msgLabels[m]
  /\ ~HasProcessed(m)

\* the message the provider holds under id m has no header of that name
NoHeader(m, name) ==
  \A k \in 1..Len(EmailOf(m).payload.headers) :
     EmailOf(m).payload.headers[k].name # name

LoopOps == {"messages.list", "messages.get", "classify", "messages.modify",
            "sleep"}
LabelOps == {"labels.list", "labels.create"}

\* C1: when the metadata fetch of a message raises, every other message of
\* the batch has still been handed to modify by the time the cycle sleeps.
C1_PartialFailureIsolation ==
  (pc = "sleep" /\ call.op = "messages.get" /\ call.outcome # "ok")
    => \A m \in Range(messages) \ {call.id} : m \in Range(modified)

\* C2: the classifier is only ever called for a message whose lower-cased
\* From header contains none of the trusted-domain strings.
C2_TrustShortCircuits ==
  call.op = "classify"
    => \A k \in 1..Len(TRUSTED_DOMAINS) :
         ~Contains(Lower(Sender(EmailOf(call.id))), TRUSTED_DOMAINS[k])

C2_Witness ==
  /\ call.op = "messages.modify"
  /\ call.log = "TRUSTED"
  /\ Sender(EmailOf(call.id)) # Lower(Sender(EmailOf(call.id)))
  /\ spam_probability = NoProbability

\* C3: every submitted mutation is (add {processed label}, remove {}) on
\* the TRUSTED and NOT SPAM branches or (add {SPAM}, remove {INBOX}) on the
\* SPAM branch; never empty, and a trusted sender never gets SPAM.
C3_OutcomeMapping ==
  call.op = "messages.modify"
    => /\ \/ /\ call.log \in {"TRUSTED", "NOT SPAM"}
             /\ call.add = {processed_label_id}
             /\ processed_label_id \notin {"SPAM", "INBOX", None}
             /\ call.remove = {}
          \/ /\ call.log = "SPAM"
             /\ call.add = {"SPAM"}
             /\ call.remove = {"INBOX"}
       /\ call.add \cup call.remove # {}
       /\ (\E k \in 1..Len(TRUSTED_DOMAINS) :
             Contains(Lower(Sender(EmailOf(call.id))), TRUSTED_DOMAINS[k]))
            => (call.log = "TRUSTED" /\ "SPAM" \notin call.add
                /\ "INBOX" \notin call.remove)

C3_Witness ==
  /\ call.op = "messages.modify"
  /\ call.log = "SPAM"
  /\ call.outcome = "ok"
  /\ msgLabels[call.id] = {"UNREAD", "SPAM"}

\* C4: a classified message is given the SPAM mutation exactly when its
\* probability is strictly above the threshold.
C4_ThresholdBoundary ==
  (call.op = "messages.modify" /\ call.log # "TRUSTED")
    => /\ spam_probability \in Probs
       /\ (call.add = {"SPAM"}) <=> (spam_probability > SPAM_CONFIDENCE_THRESHOLD)
       /\ (call.log = "SPAM") <=> (spam_probability > SPAM_CONFIDENCE_THRESHOLD)

C4_Witness ==
  /\ call.op = "messages.modify"
  /\ call.log = "NOT SPAM"
  /\ spam_probability = SPAM_CONFIDENCE_THRESHOLD

\* C5: a message that carries the processed label keeps it, is in no later
\* batch, and is the target of no later get, classify or modify call.
C5_NoReevaluationProcessed ==
  [][\A m \in MsgIds :
       HasProcessed(m) =>
         /\ HasProcessed(m)'
         /\ m \notin Pending'
         /\ m \notin Range(messages') \/ messages' = messages
         /\ call'.id = m => call' = call]_vars

C5_Witness ==
  /\ pc = "fetch"
  /\ call.op = "messages.list"
  /\ \E m \in present : HasProcessed(m) /\ "UNREAD" \in msgLabels[m]

\* C6: an unread message in SPAM without the processed label is in no later
\* batch and is the target of no later get, classify or modify call.
C6_NoReevaluationSpam ==
  [][\A m \in MsgIds :
       InSpamUnread(m) =>
         /\ InSpamUnread(m)'
         /\ m \notin Pending'
         /\ m \notin Range(messages') \/ messages' = messages
         /\ call'.id = m => call' = call]_vars

C6_Witness ==
  /\ pc = "fetch"
  /\ call.op = "messages.list"
  /\ \E m \in present : InSpamUnread(m)

\* C7: inside the loop no step ends the run, every loop state leads to the
\* sleep, and every sleep leads to a new list call.
C7_LoopRecovers ==
  /\ [][(pc \in LoopPcs) => (pc' \in LoopPcs)]_vars
  /\ (pc \in LoopPcs) ~> (pc = "sleep")
  /\ (pc = "sleep") ~> (pc = "list" /\ call.op = "sleep")
  /\ (pc = "list") ~> (call.op = "messages.list")

C7_Witness ==
  /\ pc = "sleep"
  /\ call.op = "messages.list"
  /\ call.outcome = "HttpError"
  /\ call.log = "error"

\* C8: when inference raises, the batch call returns one 0 per text, the
\* single call returns 0, and the mutation that follows is the NOT SPAM one,
\* submitted without the cycle being left.
C8_ClassifierDegradation ==
  /\ [](\A n \in 0..MaxMsgs :
          LET texts == [k \in 1..n |->
                          TextToClassify(Subject(EmailOf(k)),
                                         Sender(EmailOf(k)),
                                         EmailOf(k).snippet)]
              r == get_spam_probabilities_batch(
                     texts, [raised |-> TRUE, probs |-> <<>>])
          IN Len(r) = n /\ \A k \in 1..n : r[k] = 0)
  /\ []((call.op = "classify" /\ call.outcome = "error")
          => spam_probability = 0)
  /\ [][(pc = "threshold" /\ call.op = "classify" /\ call.outcome = "error")
          => \/ call' = call
             \/ /\ call'.op = "messages.modify"
                /\ call'.id = call.id
                /\ call'.log = "NOT SPAM"
                /\ "SPAM" \notin call'.add
                /\ pc' # "crashed"]_vars

C8_Witness ==
  /\ pc = "threshold"
  /\ call.op = "classify"
  /\ call.outcome = "error"
  /\ spam_probability = 0

\* C9: at most one label has the reserved name, the id a run holds is the
\* id of that label, and once such a label exists no label is created and
\* the id never changes.
C9_LabelNeverDuplicated ==
  /\ [](Cardinality({k \in 1..Len(account) :
                       account[k].name = PROCESSED_LABEL_NAME}) <= 1)
  /\ [](processed_label_id # None => ProcessedIds = {processed_label_id})
  /\ [][ProcessedIds # {}
          => /\ account' = account
             /\ call' # call => call'.op # "labels.create"]_vars

C9_Witness ==
  /\ account = << [id |-> "Label_1", name |-> PROCESSED_LABEL_NAME] >>
  /\ pc = "list"
  /\ call.op = "labels.list"
  /\ processed_label_id = "Label_1"

\* C10: a run whose label list or label create call failed has ended, and
\* a run that is in the loop or has made a loop call holds a label id.
C10_LabelUnavailableFatal ==
  /\ (call.op \in LabelOps /\ call.outcome # "ok")
       => /\ pc \in {"exited", "crashed"}
          /\ processed_label_id = None
  /\ (pc \in LoopPcs \/ call.op \in LoopOps)
       => processed_label_id \in ProcessedIds

C10_Witness ==
  /\ pc = "exited"
  /\ exitReason = "no_label"
  /\ call.op = "labels.create"
  /\ call.outcome = "HttpError"

Mutated(m) == HasProcessed(m) \/ "SPAM" \in msgLabels[m]

\* C11: while the fetch of one message fails at every attempt, every other
\* message in the mailbox of a running loop is eventually given its label
\* mutation.
C11_NoStarvation ==
  \A m \in MsgIds \ Poisoned :
     (pc \in LoopPcs /\ m \in present) ~> Mutated(m)

C13_SequentialCycles ==
  /\ [][(call'.op = "messages.list" /\ call' # call)
          => /\ pc = "list"
             /\ \/ call.op = "sleep"
                \/ call.op \in LabelOps /\ call.outcome = "ok"]_vars
  /\ [][(call'.op = "sleep" /\ call' # call)
          => /\ pc = "sleep"
             /\ call.op \in LoopOps \ {"sleep"}
             /\ pc' = "list"]_vars
  /\ [](pc = "sleep"
          => \/ call.outcome # "ok"
             \/ call.op = "messages.list" /\ messages = <<>>
             \/ /\ call.op = "messages.modify"
                /\ i = Len(messages) + 1
                /\ modified = messages)

C13_Witness ==
  /\ pc = "list"
  /\ call.op = "sleep"
  /\ \E m \in present : "SPAM" \in msgLabels[m]
  /\ \E m \in present : msgLabels[m] = {"INBOX", "UNREAD"}

\* C14: the label lists of every modify call are the value of one fixed
\* function of the message's sender, the classifier's probability, the
\* threshold, the trusted domains and the processed label id.
C14_DecisionPurity ==
  call.op = "messages.modify"
    => LET sender == Sender(EmailOf(call.id))
           trusted == \E k \in 1..Len(TRUSTED_DOMAINS) :
                         Contains(Lower(sender), TRUSTED_DOMAINS[k])
           expected ==
             IF trusted
             THEN [add |-> {processed_label_id}, remove |-> {}]
             ELSE IF spam_probability > SPAM_CONFIDENCE_THRESHOLD
                  THEN [add |-> {"SPAM"}, remove |-> {"INBOX"}]
                  ELSE [add |-> {processed_label_id}, remove |-> {}]
       IN [add |-> call.add, remove |-> call.remove] = expected

C14_Witness ==
  /\ call.op = "messages.modify"
  /\ call.log = "NOT SPAM"
  /\ Len(modified) >= 2
  /\ "SPAM" \in msgLabels[modified[1]]

\* C16: a message is given the TRUSTED branch exactly when its lower-cased
\* From header contains a trusted-domain string somewhere; the sender
\* x@google.com.evil.net is trusted.
C16_TrustIsSubstring ==
  call.op = "messages.modify"
    => LET low == Lower(Sender(EmailOf(call.id)))
       IN /\ (call.log = "TRUSTED")
               <=> (\E k \in 1..Len(TRUSTED_DOMAINS) :
                      \E j \in 0..(Len(low) - Len(TRUSTED_DOMAINS[k])) :
                        \A c \in 1..Len(TRUSTED_DOMAINS[k]) :
                          low[j + c] = TRUSTED_DOMAINS[k][c])
          /\ low = <<"x","@","g","o","o","g","l","e",".","c","o","m",".",
                     "e","v","i","l",".","n","e","t">>
               => call.log = "TRUSTED" /\ call.add = {processed_label_id}

C16_Witness ==
  /\ call.op = "messages.modify"
  /\ call.log = "TRUSTED"
  /\ call.outcome = "ok"
  /\ Lower(Sender(EmailOf(call.id))) =
       <<"x","@","g","o","o","g","l","e",".","c","o","m",".",
         "e","v","i","l",".","n","e","t">>
  /\ HasProcessed(call.id)

\* C17: a modify call that fails with HttpError changes no label and the
\* loop goes on to the next message of the batch; a cycle that ends after a
\* modify call that did not raise has handed every message to modify.
C17_ModifyFailureContained ==
  /\ [][(call'.op = "messages.modify" /\ call' # call
         /\ call'.outcome = "HttpError")
          => /\ msgLabels' = msgLabels
             /\ messages' = messages
             /\ i' = i + 1
             /\ pc' = IF i < Len(messages) THEN "fetch" ELSE "sleep"]_vars
  /\ []((pc = "sleep" /\ call.op = "messages.modify"
         /\ call.outcome \in {"ok", "HttpError"})
          => modified = messages)

C17_Witness ==
  /\ call.op = "messages.modify"
  /\ call.outcome = "HttpError"
  /\ pc = "fetch"
  /\ msgLabels[call.id] = {"INBOX", "UNREAD"}

\* C18: label calls are made only at the start of a run; inside the loop
\* the label id and the account's labels do not change, and the TRUSTED and
\* NOT SPAM mutations add exactly the id resolved at startup.
C18_LabelFixedAfterStartup ==
  /\ [][(call' # call /\ call'.op \in LabelOps) => pc = "start"]_vars
  /\ [][(pc \in LoopPcs)
          => /\ processed_label_id' = processed_label_id
             /\ account' = account]_vars
  /\ [](pc \in LoopPcs => processed_label_id \in ProcessedIds)
  /\ []((call.op = "messages.modify" /\ call.log \in {"TRUSTED", "NOT SPAM"})
          => /\ call.add = {processed_label_id}
             /\ call.add \subseteq ProcessedIds)

C18_Witness ==
  /\ call.op = "messages.modify"
  /\ call.log = "NOT SPAM"
  /\ call.outcome = "ok"
  /\ call.add = {"Label_2"}
  /\ account[1].name = "ml_processed"
  /\ \E m \in present \ {call.id} : HasProcessed(m)

\* C19: within a cycle no message is handed to modify twice, modify is
\* called for the messages of the batch in order, once for each message the
\* loop has finished, and no call and no message ends with both SPAM and
\* the processed label.
C19_OneMutationPerCycle ==
  /\ (pc \in {"fetch", "triage", "threshold", "sleep"})
       => /\ \A j, k \in 1..Len(modified) :
               modified[j] = modified[k] => j = k
          /\ Range(modified) \subseteq Range(messages)
          /\ Len(modified) <= Len(messages)
          /\ modified = SubSeq(messages, 1, Len(modified))
          /\ pc \in {"fetch", "triage", "threshold"}
               => modified = SubSeq(messages, 1, i - 1)
  /\ call.op = "messages.modify"
       => ~("SPAM" \in call.add /\ call.add \cap ProcessedIds # {})
  /\ \A m \in present : ~("SPAM" \in msgLabels[m] /\ HasProcessed(m))

C19_Witness ==
  /\ pc = "sleep"
  /\ call.op = "messages.modify"
  /\ Len(modified) = 3
  /\ \E m \in present : "SPAM" \in msgLabels[m]
  /\ \E m \in present : HasProcessed(m)

\* C20: a message without a From header is handled with the sender
\* [No Sender] (and [No Subject] without Subject), its fetch leads to the
\* trust check, the call after the trust check is the classifier call for
\* it, and it is never given the TRUSTED branch.
C20_MissingHeadersNoTrust ==
  /\ []((pc \in {"triage", "threshold"} /\ NoHeader(email.id, "From"))
          => Sender(email) = <<"[","N","o"," ","S","e","n","d","e","r","]">>)
  /\ []((pc \in {"triage", "threshold"} /\ NoHeader(email.id, "Subject"))
          => Subject(email) = "[No Subject]")
  /\ []((call.op = "messages.get" /\ call.outcome = "ok"
         /\ NoHeader(call.id, "From"))
          => pc \in {"triage", "exited"} /\ email = EmailOf(call.id))
  /\ []((call.op = "messages.modify" /\ NoHeader(call.id, "From"))
          => call.log \in {"SPAM", "NOT SPAM"})
  /\ [][(pc = "triage" /\ NoHeader(email.id, "From") /\ call' # call)
          => /\ call'.op = "classify"
             /\ call'.id = email.id
             /\ pc' = "threshold"]_vars

C20_Witness ==
  /\ call.op = "messages.modify"
  /\ call.log = "SPAM"
  /\ call.outcome = "ok"
  /\ Sender(EmailOf(call.id)) = NoSender
  /\ Subject(EmailOf(call.id)) = NoSubject
====
